---- MODULE Spec2Model ----
(***************************************************************************)
(* Left-leaning red-black tree of src/src/tree/red_black_tree.rs.          *)
(*                                                                         *)
(* A Link<K, V> (Option<Box<Node>>) is either Nil or a node record         *)
(* [key, val, n, color, left, right].  Every operation of LinkMethods that  *)
(* mutates a link is an operator from the link before to a result          *)
(* [t |-> link after, ev |-> events]; the event "panic" records that the   *)
(* call unwrapped an absent link (Option::unwrap on None) and never        *)
(* returned.  The facade RedBlackTree owns the root; one action per public *)
(* mutating method.                                                        *)
(***************************************************************************)
EXTENDS Integers, Sequences, FiniteSets, TLC

\* Bounds of the model: keys are 1..MaxKey, values 1..NumVals.
MaxKey == 4
NumVals == 2

\* Bound of the specification of the tree's depth: keys are 1..MaxDepthKey.
MaxDepthKey == 9

Keys == 1..MaxKey
Vals == 1..NumVals

RED == "RED"
BLACK == "BLACK"

\* Link::None
Nil == [nil |-> TRUE]

\* Link::new(key, val): a RED leaf with n = 1
new(key, val) ==
  [key |-> key, val |-> val, n |-> 1, color |-> RED, left |-> Nil, right |-> Nil]

----------------------------------------------------------------------------
\* Results of a call on a link: the link after it, and what happened inside.

Ok(t) == [t |-> t, ev |-> {}]

\* Option::unwrap() on None: the call panics, nothing is returned.
Panic == [t |-> Nil, ev |-> {"panic"}]

Panicked(r) == "panic" \in r.ev

\* r with the event e added
Ev(e, r) == [r EXCEPT !.ev = @ \cup {e}]

\* Sequencing of two steps of a method body: a panic ends the call.
Bind(r, F(_)) ==
  IF Panicked(r) THEN r
  ELSE LET s == F(r.t) IN [t |-> s.t, ev |-> r.ev \cup s.ev]

----------------------------------------------------------------------------
\* Node accessors

size(t) == IF t = Nil THEN 0 ELSE t.n

update_size(t) ==
  IF t = Nil THEN t ELSE [t EXCEPT !.n = size(t.left) + size(t.right) + 1]

is_red(t) == t # Nil /\ t.color = RED

\* node.color = c under as_mut().map(..): nothing happens on None
set_color(t, c) == IF t = Nil THEN t ELSE [t EXCEPT !.color = c]

\* compare_key with the two strict comparisons exchanged
compare_key_swapped(key, link) ==
  IF link = Nil THEN "None"
  ELSE IF key > link.key THEN "Less"
  ELSE IF key < link.key THEN "Greater"
  ELSE "Equal"

compare_key(key, link) ==
  IF link = Nil THEN "None"
  ELSE IF key < link.key THEN "Less"
  ELSE IF key > link.key THEN "Greater"
  ELSE "Equal"

----------------------------------------------------------------------------
\* Balance engine

\* rotate_left without h.update_size()
rotate_left_no_update_size(h) ==
  IF h = Nil THEN Panic
  ELSE IF h.right = Nil THEN Panic
  ELSE LET x  == h.right
           h1 == [h EXCEPT !.color = RED, !.right = x.left]
       IN  Ok([x EXCEPT !.color = h.color, !.n = h.n, !.left = h1])

rotate_left(h) ==
  IF h = Nil THEN Panic                \* h.right_mut() on None
  ELSE IF h.right = Nil THEN Panic     \* x.left_mut() on None
  ELSE LET x  == h.right
           h1 == update_size([h EXCEPT !.color = RED, !.right = x.left])
       IN  Ok([x EXCEPT !.color = h.color, !.n = h.n, !.left = h1])

\* rotate_right that does not color the demoted node h RED
rotate_right_h_keeps_color(h) ==
  IF h = Nil THEN Panic
  ELSE IF h.left = Nil THEN Panic
  ELSE LET x  == h.left
           h1 == update_size([h EXCEPT !.left = x.right])
       IN  Ok([x EXCEPT !.color = h.color, !.n = h.n, !.right = h1])

rotate_right(h) ==
  IF h = Nil THEN Panic                \* h.left_mut() on None
  ELSE IF h.left = Nil THEN Panic      \* x.right_mut() on None
  ELSE LET x  == h.left
           h1 == update_size([h EXCEPT !.color = RED, !.left = x.right])
       IN  Ok([x EXCEPT !.color = h.color, !.n = h.n, !.right = h1])

flip_colors(t, flip_type) ==
  IF t = Nil THEN t
  ELSE IF flip_type = "UP"
       THEN [t EXCEPT !.color = RED,
                      !.left = set_color(@, BLACK), !.right = set_color(@, BLACK)]
       ELSE [t EXCEPT !.color = BLACK,
                      !.left = set_color(@, RED), !.right = set_color(@, RED)]

\* balance without its first step, the left rotation of a red right link
balance_no_rotate_left(t) ==
  IF t = Nil THEN Panic
  ELSE
    Bind(IF is_red(t.left) /\ is_red(t.left.left) THEN rotate_right(t) ELSE Ok(t),
      LAMBDA b:
        Ok(update_size(IF is_red(b.left) /\ is_red(b.right)
                       THEN flip_colors(b, "UP") ELSE b)))

\* balance without its second step, the right rotation of two red left links
balance_no_rotate_right(t) ==
  IF t = Nil THEN Panic
  ELSE
    Bind(IF ~is_red(t.left) /\ is_red(t.right) THEN rotate_left(t) ELSE Ok(t),
      LAMBDA b:
        Ok(update_size(IF is_red(b.left) /\ is_red(b.right)
                       THEN flip_colors(b, "UP") ELSE b)))

\* balance without its last step, update_size
balance_no_update_size(t) ==
  IF t = Nil THEN Panic
  ELSE
    Bind(IF ~is_red(t.left) /\ is_red(t.right) THEN rotate_left(t) ELSE Ok(t),
      LAMBDA a:
        Bind(IF is_red(a.left) /\ is_red(a.left.left) THEN rotate_right(a) ELSE Ok(a),
          LAMBDA b:
            Ok(IF is_red(b.left) /\ is_red(b.right)
               THEN flip_colors(b, "UP") ELSE b)))

balance(t) ==
  IF t = Nil THEN Panic                \* self.left() on None
  ELSE
    Bind(IF ~is_red(t.left) /\ is_red(t.right) THEN rotate_left(t) ELSE Ok(t),
      LAMBDA a:
        Bind(IF is_red(a.left) /\ is_red(a.left.left) THEN rotate_right(a) ELSE Ok(a),
          LAMBDA b:
            Ok(update_size(IF is_red(b.left) /\ is_red(b.right)
                           THEN flip_colors(b, "UP") ELSE b))))

\* move_red_left that only lends the red link down and never borrows from
\* the right sibling
move_red_left_no_borrow(t) ==
  LET f   == flip_colors(t, "DOWN")
      res == IF f = Nil THEN Panic
             ELSE IF f.right = Nil THEN Ev("move_red_left_no_sibling", Panic)
             ELSE Ok(f)
  IN Ev("move_red_left", IF is_red(t) THEN res ELSE Ev("move_red_left_black", res))

\* The events record the invocation and a violated precondition: h not RED
\* when the move starts, no sibling subtree to borrow from.
move_red_left(t) ==
  LET f   == flip_colors(t, "DOWN")
      res == IF f = Nil THEN Panic              \* self.right() on None
             ELSE IF f.right = Nil THEN Ev("move_red_left_no_sibling", Panic)
             ELSE IF is_red(f.right.left)
               THEN Bind(rotate_right(f.right),
                      LAMBDA r: Bind(rotate_left([f EXCEPT !.right = r]),
                        LAMBDA x: Ok(flip_colors(x, "UP"))))
               ELSE Ok(f)
  IN Ev("move_red_left", IF is_red(t) THEN res ELSE Ev("move_red_left_black", res))

move_red_right(t) ==
  LET f   == flip_colors(t, "DOWN")
      res == IF f = Nil THEN Panic              \* self.left() on None
             ELSE IF f.left = Nil THEN Ev("move_red_right_no_sibling", Panic)
             ELSE IF is_red(f.left.left)
               THEN Bind(rotate_right(f), LAMBDA x: Ok(flip_colors(x, "UP")))
               ELSE Ok(f)
  IN Ev("move_red_right", IF is_red(t) THEN res ELSE Ev("move_red_right_black", res))

----------------------------------------------------------------------------
\* Mutation operations on a link

RECURSIVE put(_, _, _)
\* put that leaves the stored value alone when the key is found
put_no_overwrite(t, key, val) ==
  LET c == compare_key(key, t)
      r == IF c = "Less"
             THEN Bind(put(t.left, key, val), LAMBDA l: Ok([t EXCEPT !.left = l]))
           ELSE IF c = "Greater"
             THEN Bind(put(t.right, key, val), LAMBDA x: Ok([t EXCEPT !.right = x]))
           ELSE IF c = "Equal"
             THEN Ok(t)
           ELSE Ok(new(key, val))
  IN Bind(r, balance)

put(t, key, val) ==
  LET c == compare_key(key, t)
      r == IF c = "Less"
             THEN Bind(put(t.left, key, val), LAMBDA l: Ok([t EXCEPT !.left = l]))
           ELSE IF c = "Greater"
             THEN Bind(put(t.right, key, val), LAMBDA x: Ok([t EXCEPT !.right = x]))
           ELSE IF c = "Equal"
             THEN Ok([t EXCEPT !.val = val])
           ELSE Ok(new(key, val))
  IN Bind(r, balance)

RECURSIVE get(_, _)
get(t, key) ==
  LET c == compare_key(key, t)
  IN IF c = "Less" THEN get(t.left, key)
     ELSE IF c = "Greater" THEN get(t.right, key)
     ELSE IF c = "Equal" THEN <<t.val>>     \* Some(&val)
     ELSE <<>>                              \* None

RECURSIVE min(_)
\* min that does not descend: the link itself
min_no_descent(t) == t

min(t) == IF t # Nil /\ t.left # Nil THEN min(t.left) ELSE t

RECURSIVE max(_)
max(t) == IF t # Nil /\ t.right # Nil THEN max(t.right) ELSE t

\* *self = None on a node: the node and whatever it still owns are dropped.
\* The event what records that the node still had a child.
unlink(t, what) ==
  Ev("unlink", IF t.left # Nil \/ t.right # Nil THEN Ev(what, Ok(Nil)) ELSE Ok(Nil))

RECURSIVE delete_min(_)
\* delete_min that descends without move_red_left
delete_min_no_move(t) ==
  IF t = Nil THEN Panic
  ELSE IF t.left = Nil THEN unlink(t, "delete_min_drop")
  ELSE
    Bind(Bind(Ok(t),
           LAMBDA h: Bind(delete_min(h.left), LAMBDA l: Ok([h EXCEPT !.left = l]))),
         balance)

delete_min(t) ==
  IF t = Nil THEN Panic                \* self.left() on None
  ELSE IF t.left = Nil THEN unlink(t, "delete_min_drop")
  ELSE
    Bind(Bind(IF ~is_red(t.left) /\ ~is_red(t.left.left)
                THEN move_red_left(t) ELSE Ok(t),
           LAMBDA h: Bind(delete_min(h.left), LAMBDA l: Ok([h EXCEPT !.left = l]))),
         balance)

RECURSIVE delete_max(_)
\* delete_max without the right rotation of a red left link
delete_max_no_rotate(t) ==
  IF t = Nil THEN Panic
  ELSE
    Bind(Ok(t),
      LAMBDA h:
        IF h.right = Nil THEN unlink(h, "delete_max_drop")
        ELSE
          Bind(Bind(IF ~is_red(h.right) /\ ~is_red(h.right.left)
                      THEN move_red_right(h) ELSE Ok(h),
                 LAMBDA g: Bind(delete_max(g.right),
                                LAMBDA r: Ok([g EXCEPT !.right = r]))),
               balance))

delete_max(t) ==
  IF t = Nil THEN Panic                \* self.left() on None
  ELSE
    Bind(IF is_red(t.left) THEN rotate_right(t) ELSE Ok(t),
      LAMBDA h:
        IF h.right = Nil THEN unlink(h, "delete_max_drop")
        ELSE
          Bind(Bind(IF ~is_red(h.right) /\ ~is_red(h.right.left)
                      THEN move_red_right(h) ELSE Ok(h),
                 LAMBDA g: Bind(delete_max(g.right),
                                LAMBDA r: Ok([g EXCEPT !.right = r]))),
               balance))

\* mem::swap of key and val between a node and the leftmost node below next:
\* the leftmost node receives (key, val).
RECURSIVE swap_min(_, _, _)
swap_min(t, key, val) ==
  IF t.left # Nil THEN [t EXCEPT !.left = swap_min(@, key, val)]
  ELSE [t EXCEPT !.key = key, !.val = val]

RECURSIVE delete(_, _)
\* delete that goes right without rotating a red left link away first
delete_no_rotate_right(t, key) ==
  LET c == compare_key(key, t)
  IN
  IF c = "None" THEN balance(t)
  ELSE IF c = "Less" THEN
    Bind(Bind(IF is_red(t.left) THEN Ok(t)
              ELSE IF t.left = Nil THEN Panic      \* self.left().left() on None
              ELSE IF ~is_red(t.left.left) THEN move_red_left(t)
              ELSE Ok(t),
           LAMBDA h: Bind(delete(h.left, key), LAMBDA l: Ok([h EXCEPT !.left = l]))),
         balance)
  ELSE
    Bind(Ok(t),
      LAMBDA h:
        IF compare_key(key, h) = "Equal" /\ h.right = Nil
        THEN unlink(h, "delete_drop")
        ELSE
          Bind(Bind(IF is_red(h.right) THEN Ok(h)
                    ELSE IF h.right = Nil THEN Panic   \* self.right().left() on None
                    ELSE IF ~is_red(h.right.left) THEN move_red_right(h)
                    ELSE Ok(h),
                 LAMBDA g:
                   IF compare_key(key, g) = "Equal"
                   THEN IF g.right = Nil THEN Panic    \* next.as_mut().unwrap()
                        ELSE LET next == min(g.right)
                             IN Bind(delete_min(swap_min(g.right, g.key, g.val)),
                                  LAMBDA r: Ok([g EXCEPT !.key = next.key,
                                                         !.val = next.val,
                                                         !.right = r]))
                   ELSE Bind(delete(g.right, key),
                             LAMBDA r: Ok([g EXCEPT !.right = r]))),
               balance))

delete(t, key) ==
  LET c == compare_key(key, t)
  IN
  IF c = "None" THEN balance(t)
  ELSE IF c = "Less" THEN
    Bind(Bind(IF is_red(t.left) THEN Ok(t)
              ELSE IF t.left = Nil THEN Panic      \* self.left().left() on None
              ELSE IF ~is_red(t.left.left) THEN move_red_left(t)
              ELSE Ok(t),
           LAMBDA h: Bind(delete(h.left, key), LAMBDA l: Ok([h EXCEPT !.left = l]))),
         balance)
  ELSE
    Bind(IF is_red(t.left) THEN rotate_right(t) ELSE Ok(t),
      LAMBDA h:
        IF compare_key(key, h) = "Equal" /\ h.right = Nil
        THEN unlink(h, "delete_drop")
        ELSE
          Bind(Bind(IF is_red(h.right) THEN Ok(h)
                    ELSE IF h.right = Nil THEN Panic   \* self.right().left() on None
                    ELSE IF ~is_red(h.right.left) THEN move_red_right(h)
                    ELSE Ok(h),
                 LAMBDA g:
                   IF compare_key(key, g) = "Equal"
                   THEN IF g.right = Nil THEN Panic    \* next.as_mut().unwrap()
                        ELSE LET next == min(g.right)
                             IN Bind(delete_min(swap_min(g.right, g.key, g.val)),
                                  LAMBDA r: Ok([g EXCEPT !.key = next.key,
                                                         !.val = next.val,
                                                         !.right = r]))
                   ELSE Bind(delete(g.right, key),
                             LAMBDA r: Ok([g EXCEPT !.right = r]))),
               balance))

----------------------------------------------------------------------------
\* Queries and traversal

RECURSIVE floor(_, _)
\* floor that takes the current node whenever the key is greater, without
\* looking into the right subtree
floor_no_right(t, key) ==
  LET c == compare_key(key, t)
  IN IF c = "Less" THEN floor(t.left, key)
     ELSE IF c = "Greater" THEN t
     ELSE Nil

floor(t, key) ==
  LET c == compare_key(key, t)
  IN IF c = "Less" THEN floor(t.left, key)
     ELSE IF c = "Greater"
       THEN LET node == floor(t.right, key)
            IN IF node = Nil THEN t ELSE node
     ELSE Nil

RECURSIVE ceiling(_, _)
\* ceiling written as floor is, the two sides not exchanged
ceiling_as_floor(t, key) ==
  LET c == compare_key(key, t)
  IN IF c = "Less" THEN ceiling(t.left, key)
     ELSE IF c = "Greater"
       THEN LET node == ceiling(t.right, key)
            IN IF node = Nil THEN t ELSE node
     ELSE Nil

ceiling(t, key) ==
  LET c == compare_key(key, t)
  IN IF c = "Less"
       THEN LET node == ceiling(t.left, key)
            IN IF node = Nil THEN t ELSE node
     ELSE IF c = "Greater" THEN ceiling(t.right, key)
     ELSE Nil

\* k - t - 1 on usize below zero
Underflow == [underflow |-> TRUE]

RECURSIVE select(_, _)
\* select that passes k - t to the right subtree
select_no_minus_one(t, k) ==
  IF t # Nil /\ size(t.left) # k
  THEN LET tt == size(t.left)
       IN IF k < tt THEN select(t.left, k)
          ELSE IF k - tt < 0 THEN Underflow
          ELSE select(t.right, k - tt)
  ELSE t

select(t, k) ==
  IF t # Nil /\ size(t.left) # k
  THEN LET tt == size(t.left)
       IN IF k < tt THEN select(t.left, k)
          ELSE IF k - tt - 1 < 0 THEN Underflow
          ELSE select(t.right, k - tt - 1)
  ELSE t

RECURSIVE rank(_, _)
\* rank that does not count the node itself when it goes right
rank_no_plus_one(t, key) ==
  LET c == compare_key(key, t)
  IN IF c = "Less" THEN rank(t.left, key)
     ELSE IF c = "Greater" THEN size(t.left) + rank(t.right, key)
     ELSE IF c = "Equal" THEN size(t.left)
     ELSE 0

rank(t, key) ==
  LET c == compare_key(key, t)
  IN IF c = "Less" THEN rank(t.left, key)
     ELSE IF c = "Greater" THEN size(t.left) + rank(t.right, key) + 1
     ELSE IF c = "Equal" THEN size(t.left)
     ELSE 0

\* in_order: the loop over (p, stack, res)
RECURSIVE in_order_loop(_, _, _)
in_order_loop(p, stack, res) ==
  IF p = Nil /\ stack = <<>> THEN res
  ELSE IF p # Nil THEN in_order_loop(p.left, Append(stack, p), res)
  ELSE LET cur == stack[Len(stack)]
       IN in_order_loop(cur.right, SubSeq(stack, 1, Len(stack) - 1), Append(res, cur))

in_order(t) == in_order_loop(t, <<>>, <<>>)

----------------------------------------------------------------------------
\* Facade RedBlackTree

RedBlackTree_new == Nil

RedBlackTree_put(r, key, val) == put(r, key, val)

RedBlackTree_get(r, key) == get(r, key)

RedBlackTree_min(r) == min(r)

RedBlackTree_max(r) == max(r)

RedBlackTree_select(r, k) == select(r, k)

RedBlackTree_rank(r, key) == rank(r, key)

RedBlackTree_floor(r, key) == floor(r, key)

RedBlackTree_ceiling(r, key) == ceiling(r, key)

RedBlackTree_size(r) == size(r)

\* a delete variant that leaves the root's color alone before it recurses
root_red_skipped(r) ==
  IF r = Nil THEN Panic ELSE Ok(r)

\* the root-color bookkeeping before a delete variant
root_red(r) ==
  IF r = Nil THEN Panic                \* self.root.left() on None
  ELSE Ok(IF ~is_red(r.left) /\ ~is_red(r.right) THEN set_color(r, RED) ELSE r)

\* ... and after it
root_black(t) == Ok(IF size(t) > 0 THEN set_color(t, BLACK) ELSE t)

RedBlackTree_delete(r, key) ==
  Bind(Bind(root_red(r), LAMBDA t: delete(t, key)), root_black)

RedBlackTree_delete_min(r) ==
  Bind(Bind(root_red(r), delete_min), root_black)

RedBlackTree_delete_max(r) ==
  Bind(Bind(root_red(r), delete_max), root_black)

----------------------------------------------------------------------------
\* The program: a RedBlackTree and the calls made on it.

VARIABLES
  root,       \* RedBlackTree.root
  panicked,   \* a call has panicked: the program is over
  op,         \* the last call made: [name, key, val]
  prev,       \* root before the last call
  events      \* what happened inside the last call

vars == <<root, panicked, op, prev, events>>

Init ==
  /\ root = RedBlackTree_new
  /\ panicked = FALSE
  /\ op = [name |-> "new", key |-> 0, val |-> 0]
  /\ prev = Nil
  /\ events = {}

\* A call with result res: on a panic the tree is never observed again.
Call(name, key, val, res) ==
  /\ ~panicked
  /\ op' = [name |-> name, key |-> key, val |-> val]
  /\ prev' = root
  /\ events' = res.ev
  /\ panicked' = Panicked(res)
  /\ root' = IF Panicked(res) THEN root ELSE res.t

Put(key, val) == Call("put", key, val, RedBlackTree_put(root, key, val))

Delete(key) == Call("delete", key, 0, RedBlackTree_delete(root, key))

DeleteMin == Call("delete_min", 0, 0, RedBlackTree_delete_min(root))

DeleteMax == Call("delete_max", 0, 0, RedBlackTree_delete_max(root))

Next ==
  \/ \E key \in Keys, val \in Vals : Put(key, val)
  \/ \E key \in Keys : Delete(key)
  \/ DeleteMin
  \/ DeleteMax

Spec == Init /\ [][Next]_vars

----------------------------------------------------------------------------
\* The program under the calls the contract allows, over more keys and one
\* value: put of any key, delete of a stored key, delete_min and delete_max
\* on a non-empty tree.

DepthKeys == 1..MaxDepthKey

RECURSIVE keys(_)
keys(t) == IF t = Nil THEN {} ELSE {t.key} \cup keys(t.left) \cup keys(t.right)

PutStored(key) == Call("put", key, 1, RedBlackTree_put(root, key, 1))

DeleteStored(key) ==
  /\ key \in keys(root)
  /\ Call("delete", key, 0, RedBlackTree_delete(root, key))

DeleteMinStored ==
  /\ root # Nil
  /\ Call("delete_min", 0, 0, RedBlackTree_delete_min(root))

DeleteMaxStored ==
  /\ root # Nil
  /\ Call("delete_max", 0, 0, RedBlackTree_delete_max(root))

NextDepth ==
  \/ \E key \in DepthKeys : PutStored(key)
  \/ \E key \in DepthKeys : DeleteStored(key)
  \/ DeleteMinStored
  \/ DeleteMaxStored

SpecDepth == Init /\ [][NextDepth]_vars

----------------------------------------------------------------------------
\* Oracles over a tree, independent of the stored n and of the operations

RECURSIVE KeysOf(_)
KeysOf(t) == IF t = Nil THEN {} ELSE {t.key} \cup KeysOf(t.left) \cup KeysOf(t.right)

\* the nodes of t (each with its subtree)
RECURSIVE NodesOf(_)
NodesOf(t) == IF t = Nil THEN {} ELSE {t} \cup NodesOf(t.left) \cup NodesOf(t.right)

\* the numbers of BLACK nodes met on the paths from t to an absent link
RECURSIVE BlackCounts(_)
BlackCounts(t) ==
  IF t = Nil THEN {0}
  ELSE {c + (IF t.color = BLACK THEN 1 ELSE 0) :
          c \in BlackCounts(t.left) \cup BlackCounts(t.right)}

\* the value stored under key, found without using the order: {} when absent
ValuesAt(t, key) == {x.val : x \in {y \in NodesOf(t) : y.key = key}}

KeySeq(nodes) == [i \in 1..Len(nodes) |-> nodes[i].key]

StrictlyAscending(ks) == \A i \in 1..(Len(ks) - 1) : ks[i] < ks[i + 1]

\* the call just made was one the contract allows
ValidCall ==
  \/ op.name = "put"
  \/ op.name = "delete" /\ op.key \in KeysOf(prev)
  \/ op.name \in {"delete_min", "delete_max"} /\ prev # Nil

Returned == op.name # "new" /\ ~panicked

----------------------------------------------------------------------------
\* C1: after every call of put, delete of a present key, delete_min and
\* delete_max on a non-empty tree, the call has returned and every path from
\* the root to an absent link holds the same number of BLACK nodes.
C1_BlackBalance ==
  ValidCall => ~panicked /\ Cardinality(BlackCounts(root)) = 1

\* a delete that pushed a red link down returned a tree of two black levels
C1_Witness ==
  /\ op.name = "delete" /\ ~panicked
  /\ BlackCounts(prev) = {2} /\ BlackCounts(root) = {2}
  /\ size(root) = size(prev) - 1

\* C2: after every public mutating call, no node has a RED right child while
\* its left child is BLACK or absent.
C2_LeftLeaning ==
  ValidCall =>
    /\ ~panicked
    /\ \A x \in NodesOf(root) : is_red(x.right) => is_red(x.left)

\* a put to the right of a node without a red left child: balance rotated
C2_Witness ==
  /\ op.name = "put" /\ ~panicked
  /\ prev # Nil /\ op.key > max(prev).key
  /\ ~is_red(max(prev).left)
  /\ max(root).key = op.key /\ max(root).left # Nil

\* C3: after every public mutating call that leaves the tree non-empty, the
\* root is BLACK.
C3_RootBlack ==
  (Returned /\ root # Nil) => root.color = BLACK

\* C4: after every valid call, every node's key is greater than all keys of
\* its left subtree and less than all keys of its right subtree, and
\* in_order() is strictly ascending.
C4_BstOrder ==
  ValidCall =>
    /\ ~panicked
    /\ \A x \in NodesOf(root) :
         /\ \A k \in KeysOf(x.left) : k < x.key
         /\ \A k \in KeysOf(x.right) : x.key < k
    /\ StrictlyAscending(KeySeq(in_order(root)))

\* a delete of a node with two children has returned a tree of three keys
C4_Witness ==
  /\ op.name = "delete" /\ ~panicked
  /\ \E x \in NodesOf(prev) : x.key = op.key /\ x.left # Nil /\ x.right # Nil
  /\ Len(in_order(root)) >= 3

\* C5: after every valid call, every node's n is the number of nodes of its
\* subtree, and size() is the root's n, the length of in_order() and the
\* number of distinct keys stored.
C5_SizeConsistent ==
  ValidCall =>
    /\ ~panicked
    /\ \A x \in NodesOf(root) :
         /\ x.n = size(x.left) + size(x.right) + 1
         /\ x.n = Cardinality(NodesOf(x))
    /\ RedBlackTree_size(root) = Len(in_order(root))
    /\ RedBlackTree_size(root) = Cardinality(KeysOf(root))

\* a put of a new largest key below a root without a red left child: balance
\* rotated the root left while its n was stale
C5_Witness ==
  /\ op.name = "put" /\ ~panicked
  /\ prev # Nil /\ ~is_red(prev.left) /\ op.key > max(prev).key
  /\ root.key # prev.key
  /\ size(root) = size(prev) + 1

\* C6: delete(key) of a key that is not in the tree returns normally and
\* leaves the tree exactly as it was.
C6_DeleteAbsentNoop ==
  (op.name = "delete" /\ op.key \notin KeysOf(prev)) => (~panicked /\ root = prev)

\* C7: delete_min() and delete_max() on an empty tree return normally and
\* leave the tree empty.
C7_DeleteExtremeEmpty ==
  (op.name \in {"delete_min", "delete_max"} /\ prev = Nil)
    => (~panicked /\ root = Nil /\ RedBlackTree_size(root) = 0)

\* C8: after put(k, v), get(k) is v, get(j) is unchanged for every other key
\* j, and size() has grown by one if k was absent and not at all otherwise.
C8_PutGet ==
  op.name = "put" =>
    /\ ~panicked
    /\ RedBlackTree_get(root, op.key) = <<op.val>>
    /\ ValuesAt(root, op.key) = {op.val}
    /\ \A j \in Keys \ {op.key} :
         /\ RedBlackTree_get(root, j) = RedBlackTree_get(prev, j)
         /\ ValuesAt(root, j) = ValuesAt(prev, j)
    /\ RedBlackTree_size(root) = RedBlackTree_size(prev)
         + (IF op.key \in KeysOf(prev) THEN 0 ELSE 1)

\* an overwrite of a stored key with another value, in a tree of four keys
C8_Witness ==
  /\ op.name = "put" /\ ~panicked
  /\ size(prev) >= 4
  /\ RedBlackTree_get(prev, op.key) # <<>>
  /\ RedBlackTree_get(prev, op.key) # <<op.val>>
  /\ RedBlackTree_get(root, op.key) = <<op.val>>

\* C9: after delete(k) of a stored key k, get(k) is absent, size() is one
\* less, in_order() is strictly ascending and every other key keeps its value.
C9_DeletePresent ==
  (op.name = "delete" /\ op.key \in KeysOf(prev)) =>
    /\ ~panicked
    /\ RedBlackTree_get(root, op.key) = <<>>
    /\ op.key \notin KeysOf(root)
    /\ RedBlackTree_size(root) = RedBlackTree_size(prev) - 1
    /\ StrictlyAscending(KeySeq(in_order(root)))
    /\ \A j \in Keys \ {op.key} :
         /\ RedBlackTree_get(root, j) = RedBlackTree_get(prev, j)
         /\ ValuesAt(root, j) = ValuesAt(prev, j)

\* the deleted key sat in a node with two children: the successor swap ran
C9_Witness ==
  /\ op.name = "delete" /\ ~panicked
  /\ prev.key = op.key /\ prev.left # Nil /\ prev.right # Nil
  /\ prev.right.left # Nil
  /\ RedBlackTree_get(root, op.key) = <<>>
  /\ size(root) = size(prev) - 1

\* the node of S with the largest key, Nil when S is empty
MaxKeyNode(S) ==
  IF S = {} THEN Nil ELSE CHOOSE x \in S : \A y \in S : y.key <= x.key

\* C10 as stated: floor(key) is the entry with the largest key less than or
\* equal to key (the entry holding key when key is stored), and is absent only
\* when every stored key is greater than key.
C10_FloorAtMost ==
  \A key \in Keys :
    floor(root, key) = MaxKeyNode({x \in NodesOf(root) : x.key <= key})

\* C10 amended: for a key that is not stored, floor(key) is the entry with the
\* largest key less than or equal to key, absent only when every stored key is
\* greater than key; for a stored key, floor(key) is never the entry holding
\* key.
C10_FloorBelow ==
  \A key \in Keys :
    LET f == floor(root, key)
    IN /\ key \notin KeysOf(root) =>
            /\ f = MaxKeyNode({x \in NodesOf(root) : x.key <= key})
            /\ f = Nil <=> \A k \in KeysOf(root) : k > key
       /\ key \in KeysOf(root) =>
            f \notin {x \in NodesOf(root) : x.key = key}

\* a key that is not stored whose floor is an entry below the root, and a
\* stored key whose floor is another entry
C10_Witness ==
  /\ ~panicked
  /\ \E key \in Keys \ KeysOf(root) :
       floor(root, key) # Nil /\ floor(root, key) # root
  /\ \E key \in KeysOf(root) :
       floor(root, key) # Nil /\ floor(root, key).key # key

\* the keys the queries are asked about: stored or not, below and above all
QueryKeys == 0..(MaxKey + 1)

\* the node of S with the smallest key, Nil when S is empty
MinKeyNode(S) ==
  IF S = {} THEN Nil ELSE CHOOSE x \in S : \A y \in S : x.key <= y.key

\* C11: for a stored key, floor(key) is its in-order predecessor and
\* ceiling(key) its in-order successor, whenever that entry exists.
C11_PredSucc ==
  \A key \in KeysOf(root) :
    /\ (\E k \in KeysOf(root) : k < key) =>
         floor(root, key) = MaxKeyNode({x \in NodesOf(root) : x.key < key})
    /\ (\E k \in KeysOf(root) : k > key) =>
         ceiling(root, key) = MinKeyNode({x \in NodesOf(root) : x.key > key})

\* C12: whenever floor(key) and ceiling(key) both return an entry,
\* floor(key).key <= key <= ceiling(key).key, for stored and other keys.
C12_FloorCeilingBracket ==
  \A key \in QueryKeys :
    LET f == floor(root, key)
        c == ceiling(root, key)
    IN (f # Nil /\ c # Nil) => (f.key <= key /\ key <= c.key)

\* both exist for a stored key, and they are different entries
C12_Witness ==
  /\ ~panicked
  /\ \E key \in KeysOf(root) :
       /\ floor(root, key) # Nil /\ ceiling(root, key) # Nil
       /\ floor(root, key).key < ceiling(root, key).key

\* the ranks select is asked for: inside and outside the tree
SelectArgs == 0..(MaxKey + 1)

\* the number of stored keys strictly less than key
Below(t, key) == Cardinality({j \in KeysOf(t) : j < key})

\* C13: select(k) is the entry holding the k-th smallest key (0-indexed) when
\* 0 <= k < size(), it is absent exactly when k >= size(), and k - t - 1
\* never underflows.
C13_Select ==
  \A k \in SelectArgs :
    LET s == RedBlackTree_select(root, k)
    IN /\ s # Underflow
       /\ s = Nil <=> k >= RedBlackTree_size(root)
       /\ k < RedBlackTree_size(root) =>
            /\ s \in NodesOf(root)
            /\ Below(root, s.key) = k

\* a tree of four keys: select(3) went right, select(4) is absent
C13_Witness ==
  /\ ~panicked /\ size(root) = 4
  /\ select(root, 3) # Nil /\ select(root, 3).key > root.key
  /\ select(root, 4) = Nil

\* C14: rank(key) is the number of stored keys strictly less than key,
\* whether or not key is stored; 0 on an empty tree.
C14_Rank ==
  \A key \in QueryKeys :
    /\ RedBlackTree_rank(root, key) = Below(root, key)
    /\ root = Nil => RedBlackTree_rank(root, key) = 0

\* a key that is not stored, with stored keys on both sides of it, and a
\* stored key of the right subtree
C14_Witness ==
  /\ ~panicked /\ root # Nil
  /\ \E key \in Keys \ KeysOf(root) :
       rank(root, key) > 0 /\ rank(root, key) < size(root)
  /\ \E key \in KeysOf(root) : key > root.key /\ rank(root, key) >= 2

\* C15: rank(select(k).key) = k for every k with 0 <= k < size().
C15_RankSelect ==
  \A k \in SelectArgs :
    k < RedBlackTree_size(root) =>
      LET s == RedBlackTree_select(root, k)
      IN s # Underflow /\ s # Nil /\ RedBlackTree_rank(root, s.key) = k

\* the round trip for the largest key of a tree of four keys
C15_Witness ==
  /\ ~panicked /\ size(root) = 4
  /\ select(root, 3) = max(root)
  /\ rank(root, max(root).key) = 3

SmallestKey(t) == CHOOSE k \in KeysOf(t) : \A j \in KeysOf(t) : k <= j

LargestKey(t) == CHOOSE k \in KeysOf(t) : \A j \in KeysOf(t) : j <= k

\* C16: delete_min() on a non-empty tree removes exactly the entry with the
\* smallest key: size() is one less, get(old minimum) is absent, min() and
\* select(0) are the previously second-smallest key, all others are kept.
C16_DeleteMin ==
  (op.name = "delete_min" /\ prev # Nil) =>
    /\ ~panicked
    /\ RedBlackTree_size(root) = RedBlackTree_size(prev) - 1
    /\ RedBlackTree_get(root, SmallestKey(prev)) = <<>>
    /\ KeysOf(root) = KeysOf(prev) \ {SmallestKey(prev)}
    /\ \A j \in KeysOf(root) :
         /\ RedBlackTree_get(root, j) = RedBlackTree_get(prev, j)
         /\ ValuesAt(root, j) = ValuesAt(prev, j)
    /\ IF KeysOf(root) = {}
       THEN RedBlackTree_min(root) = Nil /\ RedBlackTree_select(root, 0) = Nil
       ELSE /\ RedBlackTree_min(root) # Nil
            /\ RedBlackTree_min(root).key = SmallestKey(root)
            /\ RedBlackTree_select(root, 0) = RedBlackTree_min(root)

\* a delete_min on four keys that had to move a red link to the left
C16_Witness ==
  /\ op.name = "delete_min" /\ ~panicked
  /\ size(prev) = 4 /\ "move_red_left" \in events
  /\ min(root).key = select(prev, 1).key

\* C17: delete_max() on a non-empty tree removes exactly the entry with the
\* largest key: size() is one less, get(old maximum) is absent, max() and
\* select(size() - 1) are the previously second-largest key, all others kept.
C17_DeleteMax ==
  (op.name = "delete_max" /\ prev # Nil) =>
    /\ ~panicked
    /\ RedBlackTree_size(root) = RedBlackTree_size(prev) - 1
    /\ RedBlackTree_get(root, LargestKey(prev)) = <<>>
    /\ KeysOf(root) = KeysOf(prev) \ {LargestKey(prev)}
    /\ \A j \in KeysOf(root) :
         /\ RedBlackTree_get(root, j) = RedBlackTree_get(prev, j)
         /\ ValuesAt(root, j) = ValuesAt(prev, j)
    /\ IF KeysOf(root) = {}
       THEN RedBlackTree_max(root) = Nil
       ELSE /\ RedBlackTree_max(root) # Nil
            /\ RedBlackTree_max(root).key = LargestKey(root)
            /\ RedBlackTree_select(root, RedBlackTree_size(root) - 1)
                 = RedBlackTree_max(root)

\* a delete_max on four keys that had to move a red link to the right
C17_Witness ==
  /\ op.name = "delete_max" /\ ~panicked
  /\ size(prev) = 4 /\ "move_red_right" \in events
  /\ max(root).key = select(prev, 2).key

DropEvents == {"delete_drop", "delete_min_drop", "delete_max_drop"}

\* C19: whenever delete_min, delete_max or delete unlinks a node during a
\* valid call, that node has no child at that moment.
C19_UnlinkLeaf ==
  ValidCall => events \cap DropEvents = {}

\* delete of the largest of four keys: the node was unlinked in delete's own
\* equal-key / no-right case
C19_Witness ==
  /\ op.name = "delete" /\ ~panicked
  /\ size(prev) = 4 /\ op.key = LargestKey(prev)
  /\ "unlink" \in events
  /\ KeysOf(root) = KeysOf(prev) \ {op.key}

PreconditionEvents ==
  {"move_red_left_black", "move_red_right_black",
   "move_red_left_no_sibling", "move_red_right_no_sibling"}

\* C20: every move_red_left / move_red_right made during a valid facade
\* delete, delete_min or delete_max is applied to a RED node whose sibling
\* subtree is present.
C20_MoveRedPrecondition ==
  ValidCall => events \cap PreconditionEvents = {}

\* a delete_min on a tree of five or more keys whose root had a RED left
\* child: the facade left the root BLACK and delete_min did not move at the
\* root, so move_red_left ran on a node below the root
C20_Witness ==
  /\ op.name = "delete_min" /\ ~panicked
  /\ size(prev) >= 5 /\ is_red(prev.left)
  /\ "move_red_left" \in events

\* the number of nodes on the longest path from t to an absent link
RECURSIVE Height(_)
Height(t) ==
  IF t = Nil THEN 0
  ELSE 1 + (IF Height(t.left) >= Height(t.right)
            THEN Height(t.left) ELSE Height(t.right))

\* C18: for every tree reached by put, delete of a stored key, delete_min and
\* delete_max, the longest root-to-null path has h nodes with
\* 2^h <= (size() + 1)^2.
C18_LogDepth ==
  2 ^ Height(root) <= (RedBlackTree_size(root) + 1) * (RedBlackTree_size(root) + 1)

\* a tree of six keys, four nodes deep (the deepest there is), left by a delete
C18_Witness ==
  /\ op.name = "delete" /\ ~panicked
  /\ size(root) = 6 /\ Height(root) = 4

\* C21: in any sequence of put, delete of a stored key, and delete_min /
\* delete_max on a non-empty tree, no call unwraps an absent link: every call
\* returns normally.
C21_NoPanic ==
  ValidCall => (~panicked /\ "panic" \notin events)

\* a delete of a stored key that rotated while borrowing from the right
\* sibling (move_red_left on a node whose right child has a red left child)
\* has returned
C21_Witness ==
  /\ op.name = "delete" /\ op.key \in KeysOf(prev) /\ ~panicked
  /\ "move_red_left" \in events
  /\ ~is_red(prev.left) /\ prev.right # Nil /\ is_red(prev.right.left)
  /\ size(root) = size(prev) - 1

\* C22: after every valid public mutating call, no RED node, the root
\* included, has a RED child.
C22_NoRedRed ==
  ValidCall =>
    \A x \in NodesOf(root) : is_red(x) => (~is_red(x.left) /\ ~is_red(x.right))

====
